---- MODULE Spec2Model ----
(***************************************************************************)
(* Model of DimensionHandler.py: the dimension derivation of a rocker-bogie *)
(* suspension.  main() runs validate_rover_width and then thirteen update_* *)
(* handlers in a fixed order; every handler looks names up in the parameter *)
(* table (a missing name raises KeyError and ends the run), builds a        *)
(* record and hands it to FileHandler.map_to_text_file.                     *)
(*                                                                          *)
(* Numbers.  The table holds whole millimetres; every derived quantity is   *)
(* kept exactly, as an integer count of 1/Unit mm, so that the halves and   *)
(* quarters the formulas take (x / 2, 0.5 * x, x / 4, 2.5 * x, 0.25 * x)    *)
(* are exact.  sqrt, atan2 and tan have no exact value in the integers: a   *)
(* quantity built from them carries them as symbolic terms (field t of a    *)
(* value), so two values are equal iff the code computed them by the same   *)
(* expression from the same arguments.                                      *)
(***************************************************************************)
EXTENDS Integers, Sequences, FiniteSets, TLC

VARIABLES
    params_with_units,  \* the table loaded at import: name -> <<val, unit>>
    pc,                 \* index in MainSeq of the next statement of main
    status,             \* "running", "done" or "aborted"
    cause,              \* why the run aborted: "none", "lookup", "arith", "persist"
    trace,              \* the statements of main entered so far, in order
    valid,              \* <<evaluated, passed, required_clearance>> of main line 257
    rec,                \* main's local records: component -> record (<<>> = unbound)
    offset,             \* main's local offset (front rocker)
    files,              \* artifacts written in this run: sequence of <<name, record>>
    console             \* lines printed in this run: sequence of <<tag, value>>

vars == <<params_with_units, pc, status, cause, trace, valid, rec, offset, files, console>>

----------------------------------------------------------------------------
(* Bounds of the explored parameter tables *)

MaxSlack == 2           \* rover_width ranges over base .. base + MaxSlack
MaxClearance == 1       \* middle_wheel_clearance over base .. base + MaxClearance
MaxShaftDiameter == 1   \* middle_wheel_shaft_diameter over base .. base + MaxShaftDiameter

(* 1 mm = Unit model units; 4 is the finest denominator of the source
   (rover_length / 4, 0.25 * neck_height). *)
Unit == 4

----------------------------------------------------------------------------
(* Values: n is the rational part in 1/Unit mm, t the symbolic terms, each
   <<coefficient, kind, a, b, c>> over integers a, b, c in 1/Unit mm:
     "hypot"  math.sqrt(a**2 + b**2)
     "atan2"  math.degrees(math.atan2(a, b))
     "offset" c / (2 * math.tan(math.radians((degrees(atan2(a, b)) + 90) / 2))) *)

Num(q) == [n |-> q, t |-> <<>>]

Term(kind, a, b, c) == [n |-> 0, t |-> << <<1, kind, a, b, c>> >>]

Add(x, y) == [n |-> x.n + y.n, t |-> x.t \o y.t]

Neg(x) == [n |-> 0 - x.n, t |-> [i \in 1..Len(x.t) |->
                 <<0 - x.t[i][1], x.t[i][2], x.t[i][3], x.t[i][4], x.t[i][5]>>]]

Sub(x, y) == Add(x, Neg(y))

----------------------------------------------------------------------------
(* Records: ordered sequences of <<key, value, unit>>, a Python dict whose
   values are (value, unit) tuples. *)

Keys(r) == [i \in 1..Len(r) |-> r[i][1]]

HasKey(r, k) == \E i \in 1..Len(r) : r[i][1] = k

Get(r, k) == r[CHOOSE i \in 1..Len(r) : r[i][1] = k][2]

\* d[k] = (v, u): an existing key keeps its place, a new key goes last
Put(r, k, v, u) ==
    IF HasKey(r, k)
    THEN [i \in 1..Len(r) |-> IF r[i][1] = k THEN <<k, v, u>> ELSE r[i]]
    ELSE Append(r, <<k, v, u>>)

\* a key bound to None in a dict literal, assigned later
Unset(k) == <<k, Num(0), "unset">>

----------------------------------------------------------------------------
(* The parameter table (Parameters.csv as loaded by FileHandler.csv_to_map) *)

BaseTable == [
    rover_width |-> 31, rover_length |-> 40,
    frame_width |-> 2, frame_height |-> 4,
    ground_clearance |-> 12,
    corner_wheel_asm_height |-> 3, steering_asm_height |-> 2,
    front_steering_mount_neck_height |-> 1, rear_steering_mount_neck_height |-> 2,
    wheel_diameter |-> 4, wheel_thickness |-> 1,
    upper_shaft_frame_clearance |-> 1, swingarm_thickness |-> 2,
    upper_shaft_overhang |-> 2, lower_shaft_overhang |-> 3,
    middle_wheel_clearance |-> 1, middle_wheel_shaft_length |-> 5,
    middle_wheel_shaft_overhang |-> 3, middle_wheel_shaft_diameter |-> 0,
    linkage_thickness |-> 1, linkage_width |-> 2, linkage_wall_thickness |-> 1,
    linkage_mount_base_length |-> 2, linkage_mount_bolt_diameter |-> 1,
    pivot_housing_bolt_diameter |-> 1, pivot_housing_min_wall_thickness |-> 1,
    upper_bearing_diameter |-> 4, lower_bearing_diameter |-> 2,
    upper_bearing_outer_race_inner_diameter |-> 3,
    lower_bearing_outer_race_inner_diameter |-> 1,
    upper_bearing_thickness |-> 2, lower_bearing_thickness |-> 1,
    upper_pivot_housing_num_bolts |-> 4, lower_pivot_housing_num_bolts |-> 3,
    upper_shaft_diameter |-> 3, lower_shaft_diameter |-> 2,
    upper_ret_ring_inner_diameter |-> 2, lower_ret_ring_inner_diameter |-> 1,
    upper_ret_ring_thickness |-> 1, lower_ret_ring_thickness |-> 1 ]

Names == DOMAIN BaseTable

UnitOf(name) ==
    IF name \in {"upper_pivot_housing_num_bolts", "lower_pivot_housing_num_bolts"}
    THEN "None" ELSE "mm"

\* The table with the explored entries varied: slack, clr, dia are added to the
\* base values; low and short choose the degenerate front geometry.
Vary(slack, clr, dia, low, short) ==
    [name \in Names |->
        << CASE name = "rover_width" -> BaseTable[name] + slack
             [] name = "middle_wheel_clearance" -> BaseTable[name] + clr
             [] name = "middle_wheel_shaft_diameter" -> BaseTable[name] + dia
             [] name = "ground_clearance" -> IF low THEN 2 ELSE BaseTable[name]
             [] name = "rover_length" ->
                    IF short THEN BaseTable["wheel_diameter"] ELSE BaseTable[name]
             [] OTHER -> BaseTable[name],
           UnitOf(name) >>]

\* The csv without the rows of `missing`
Drop(table, missing) == [name \in DOMAIN table \ missing |-> table[name]]

\* lines 5-7: params[name] = val
params == [name \in DOMAIN params_with_units |-> params_with_units[name][1]]

\* params[name] in model units
p(name) == Unit * params[name]

\* every name of S is a key of params (no KeyError on them)
Known(S) == S \subseteq DOMAIN params

----------------------------------------------------------------------------
(* What a handler did: fail is "none", "lookup" (KeyError) or "arith"
   (ZeroDivisionError); printed is what it printed before returning or
   raising; name and record are what it passes to map_to_text_file. *)

Raised(why, printed) ==
    [fail |-> why, printed |-> printed, name |-> "", record |-> <<>>, off |-> Num(0)]

Returned(printed, name, record, off) ==
    [fail |-> "none", printed |-> printed, name |-> name, record |-> record, off |-> off]

----------------------------------------------------------------------------
(* The two factors of the source *)

BOLT_SPACING_FACTOR(x) == x \div 2

STEERING_MOUNT_FILLET_RADIUS_FACTOR(x) == x \div 4

(* VALIDATION *)

validate_rover_width_names ==
    {"rover_width", "frame_width", "upper_shaft_frame_clearance", "swingarm_thickness",
     "linkage_thickness", "middle_wheel_clearance", "upper_shaft_overhang",
     "middle_wheel_shaft_length", "wheel_thickness"}

\* faulty variant: equality does not pass
validate_rover_width_strict ==
    LET target_frame_to_wheel_width == (p("rover_width") - p("frame_width")) \div 2
        frame_to_wheel_width ==
            p("upper_shaft_frame_clearance") + p("swingarm_thickness")
            + 2 * p("linkage_thickness") + 2 * p("middle_wheel_clearance")
            + p("upper_shaft_overhang") + p("middle_wheel_shaft_length")
            + p("wheel_thickness")
    IN  <<frame_to_wheel_width < target_frame_to_wheel_width, frame_to_wheel_width>>

\* faulty variant: the target is half the rover width, the frame not taken off
validate_rover_width_no_frame ==
    LET target_frame_to_wheel_width == p("rover_width") \div 2
        frame_to_wheel_width ==
            p("upper_shaft_frame_clearance") + p("swingarm_thickness")
            + 2 * p("linkage_thickness") + 2 * p("middle_wheel_clearance")
            + p("upper_shaft_overhang") + p("middle_wheel_shaft_length")
            + p("wheel_thickness")
    IN  <<frame_to_wheel_width <= target_frame_to_wheel_width, frame_to_wheel_width>>

validate_rover_width ==
    LET target_frame_to_wheel_width == (p("rover_width") - p("frame_width")) \div 2
        frame_to_wheel_width ==
            p("upper_shaft_frame_clearance") + p("swingarm_thickness")
            + 2 * p("linkage_thickness") + 2 * p("middle_wheel_clearance")
            + p("upper_shaft_overhang") + p("middle_wheel_shaft_length")
            + p("wheel_thickness")
    IN  <<frame_to_wheel_width <= target_frame_to_wheel_width, frame_to_wheel_width>>

(* HELPERS *)

get_pivot_housing_diameter(prefix) ==
    p(prefix \o "bearing_diameter")
    + 2 * (p("pivot_housing_bolt_diameter") + 2 * p("pivot_housing_min_wall_thickness"))

get_pivot_housing_diameter_names(prefix) ==
    {prefix \o "bearing_diameter", "pivot_housing_bolt_diameter",
     "pivot_housing_min_wall_thickness"}

get_linkage_angle_and_extended_length(height, width) ==
    <<Term("atan2", height, width, 0), Term("hypot", height, width, 0)>>

get_linkage_map(length, angle) ==
    << <<"linkage_thickness", Num(p("linkage_thickness")), "mm">>,
       <<"width", Num(p("linkage_width")), "mm">>,
       <<"wall_thickness", Num(p("linkage_wall_thickness")), "mm">>,
       <<"length", length, "mm">>,
       <<"angle", angle, "None">>,
       <<"bolt_diameter", Num(p("linkage_mount_bolt_diameter")), "mm">>,
       <<"bolt_spacing", Num(BOLT_SPACING_FACTOR(p("linkage_mount_bolt_diameter"))), "mm">> >>

get_linkage_map_names ==
    {"linkage_thickness", "linkage_width", "linkage_wall_thickness",
     "linkage_mount_bolt_diameter"}

get_shaft_map(prefix) ==
    << <<"shaft_diameter", Num(p(prefix \o "shaft_diameter")), "mm">>,
       <<"ret_ring_inner_diameter", Num(p(prefix \o "ret_ring_inner_diameter")), "mm">>,
       <<"ret_ring_thickness", Num(p(prefix \o "ret_ring_thickness")), "mm">> >>

get_shaft_map_names(prefix) ==
    {prefix \o "shaft_diameter", prefix \o "ret_ring_inner_diameter",
     prefix \o "ret_ring_thickness"}

\* A record as the dict the code indexes: key -> <<value, unit>>
AsDict(r) == [k \in {r[i][1] : i \in 1..Len(r)} |->
                 LET i == CHOOSE j \in 1..Len(r) : r[j][1] = k IN <<r[i][2], r[i][3]>>]

\* params_with_units as a dict of (value, unit)
TableDict == [k \in DOMAIN params_with_units |->
                 <<Num(Unit * params_with_units[k][1]), params_with_units[k][2]>>]

\* dest.update({key: src[key] for key in key_list if key in src})
RECURSIVE append_map(_, _, _)
append_map(key_list, src, dest) ==
    IF key_list = <<>> THEN dest
    ELSE LET key == Head(key_list)
         IN  append_map(Tail(key_list), src,
                 IF key \in DOMAIN src
                 THEN Put(dest, key, src[key][1], src[key][2])
                 ELSE dest)

----------------------------------------------------------------------------
(* LINKAGES.  Each update_* operator is the handler's outcome on the current
   table: the names are looked up in the order of the source, so a missing
   name raises before anything later in the handler happens. *)

\* line 77 divides by 2 * tan(alpha): alpha is exactly 0.0, and the division
\* raises ZeroDivisionError, when atan2(height, width) is -90 degrees
TanAlphaIsZero(height, width) == width = 0 /\ height < 0

update_front_rocker_linkage ==
    IF ~Known({"ground_clearance", "frame_height", "corner_wheel_asm_height",
               "steering_asm_height", "front_steering_mount_neck_height",
               "rover_length", "wheel_diameter"}
              \cup get_pivot_housing_diameter_names("upper_") \cup {"linkage_width"})
    THEN Raised("lookup", <<>>)
    ELSE
    LET height == (p("ground_clearance") + p("frame_height") \div 2)
                  - (p("corner_wheel_asm_height") + p("steering_asm_height")
                     + p("front_steering_mount_neck_height"))
        width == (p("rover_length") - p("wheel_diameter")) \div 2
        al == get_linkage_angle_and_extended_length(height, width)
        angle == al[1]
        extended_length == al[2]
        upper_pivot_housing_radius == get_pivot_housing_diameter("upper_") \div 2
        off == Term("offset", height, width, p("linkage_width"))
        length == Sub(extended_length,
                      Add(Num(upper_pivot_housing_radius
                              + 2 * p("linkage_mount_base_length")), off))
    IN  IF TanAlphaIsZero(height, width) THEN Raised("arith", <<>>)
        ELSE IF ~Known({"linkage_mount_base_length"} \cup get_linkage_map_names)
        THEN Raised("lookup", <<>>)
        ELSE Returned(<<>>, "front_rocker_linkage.txt", get_linkage_map(length, angle), off)

update_rear_rocker_linkage ==
    IF ~Known({"ground_clearance", "frame_height", "corner_wheel_asm_height",
               "steering_asm_height", "rear_steering_mount_neck_height", "linkage_width",
               "rover_length", "linkage_mount_base_length"}
              \cup get_pivot_housing_diameter_names("upper_")
              \cup get_pivot_housing_diameter_names("lower_")
              \cup get_linkage_map_names)
    THEN Raised("lookup", <<>>)
    ELSE
    LET height == (p("ground_clearance") + p("frame_height") \div 2)
                  - (p("corner_wheel_asm_height") + p("steering_asm_height")
                     + p("rear_steering_mount_neck_height") + p("linkage_width") \div 2)
        width == p("rover_length") \div 4
        al == get_linkage_angle_and_extended_length(height, width)
        upper_pivot_housing_radius == get_pivot_housing_diameter("upper_") \div 2
        lower_pivot_housing_radius == get_pivot_housing_diameter("lower_") \div 2
        length == Sub(al[2], Num(upper_pivot_housing_radius + lower_pivot_housing_radius
                                 + 2 * p("linkage_mount_base_length")))
    IN  Returned(<<>>, "rear_rocker_linkage.txt", get_linkage_map(length, al[1]), Num(0))

\* faulty variant: the wheel shaft radius is not taken off
middle_bogie_end_fittings_no_shaft ==
    get_pivot_housing_diameter("lower_") \div 2
    + 2 * p("linkage_mount_base_length")

\* line 106: what is taken off the extended length of the middle bogie linkage
middle_bogie_end_fittings ==
    get_pivot_housing_diameter("lower_") \div 2
    + p("middle_wheel_shaft_diameter") \div 2
    + 2 * p("linkage_mount_base_length")

update_middle_bogie_linkage ==
    IF ~Known({"corner_wheel_asm_height", "steering_asm_height",
               "rear_steering_mount_neck_height", "linkage_width", "wheel_diameter",
               "rover_length", "middle_wheel_shaft_diameter", "linkage_mount_base_length"}
              \cup get_pivot_housing_diameter_names("lower_")
              \cup get_linkage_map_names)
    THEN Raised("lookup", <<>>)
    ELSE
    LET height == p("corner_wheel_asm_height") + p("steering_asm_height")
                  + p("rear_steering_mount_neck_height") + p("linkage_width") \div 2
                  - p("wheel_diameter") \div 2
        width == p("rover_length") \div 4
        al == get_linkage_angle_and_extended_length(height, width)
        length == Sub(al[2], Num(middle_bogie_end_fittings))
    IN  Returned(<<>>, "middle_bogie_linkage.txt", get_linkage_map(length, al[1]), Num(0))

update_rear_bogie_linkage ==
    IF ~Known({"rover_length", "wheel_diameter", "linkage_width",
               "linkage_mount_base_length"}
              \cup get_pivot_housing_diameter_names("lower_")
              \cup get_linkage_map_names)
    THEN Raised("lookup", <<>>)
    ELSE
    LET width == p("rover_length") \div 4
        lower_pivot_housing_radius == get_pivot_housing_diameter("lower_") \div 2
        length == width - (lower_pivot_housing_radius + p("wheel_diameter") \div 2
                           + p("linkage_width") \div 2
                           + (5 * p("linkage_mount_base_length")) \div 2)
    IN  Returned(<<>>, "rear_bogie_linkage.txt", get_linkage_map(Num(length), Num(0)), Num(0))

----------------------------------------------------------------------------
(* PIVOT HOUSINGS & SPACERS *)

update_pivot_housing(prefix, interior_angle_1, interior_angle_2) ==
    IF ~Known(get_pivot_housing_diameter_names(prefix)
              \cup {"linkage_thickness", prefix \o "bearing_diameter",
                    prefix \o "bearing_outer_race_inner_diameter",
                    prefix \o "bearing_thickness", "pivot_housing_min_wall_thickness",
                    "pivot_housing_bolt_diameter", prefix \o "pivot_housing_num_bolts",
                    "linkage_width", "linkage_mount_base_length",
                    "linkage_wall_thickness", "linkage_mount_bolt_diameter"})
    THEN Raised("lookup", <<>>)
    ELSE
    LET literal ==
          << <<"housing_diameter", Num(get_pivot_housing_diameter(prefix)), "mm">>,
             <<"housing_thickness", Num(p("linkage_thickness")), "mm">>,
             <<"bearing_diameter", Num(p(prefix \o "bearing_diameter")), "mm">>,
             <<"bearing_outer_race_inner_diameter",
               Num(p(prefix \o "bearing_outer_race_inner_diameter")), "mm">>,
             <<"bearing_thickness", Num(p(prefix \o "bearing_thickness")), "mm">>,
             <<"housing_min_wall_thickness",
               Num(p("pivot_housing_min_wall_thickness")), "mm">>,
             <<"housing_bolt_diameter", Num(p("pivot_housing_bolt_diameter")), "mm">>,
             <<"linkage_separation_angle",
               Sub(Num(180 * Unit), Add(interior_angle_1, interior_angle_2)), "None">>,
             Unset("bolt_placement_radius"),
             <<"num_bolts", Num(p(prefix \o "pivot_housing_num_bolts")), "None">>,
             <<"linkage_mount_base_width", Num(p("linkage_width")), "mm">>,
             <<"linkage_mount_base_length", Num(p("linkage_mount_base_length")), "mm">>,
             <<"linkage_mount_shoulder_depth", Num(p("linkage_wall_thickness")), "mm">>,
             <<"linkage_mount_bolt_diameter", Num(p("linkage_mount_bolt_diameter")), "mm">>,
             Unset("linkage_mount_bolt_spacing"),
             Unset("linkage_mount_tongue_length") >>
        h1 == Put(literal, "bolt_placement_radius",
                  Num(Get(literal, "bearing_diameter").n \div 2
                      + Get(literal, "housing_min_wall_thickness").n
                      + Get(literal, "housing_bolt_diameter").n \div 2), "mm")
        h2 == Put(h1, "linkage_mount_bolt_spacing",
                  Num(BOLT_SPACING_FACTOR(Get(h1, "linkage_mount_bolt_diameter").n)), "mm")
        h3 == Put(h2, "linkage_mount_tongue_length",
                  Num(3 * Get(h2, "linkage_mount_bolt_spacing").n
                      + 2 * Get(h2, "linkage_mount_bolt_diameter").n), "mm")
    IN  Returned(<<>>, prefix \o "pivot_housing.txt", h3, Num(0))

\* faulty variant: the two branches swapped
spacer_thickness_swapped(prefix) ==
    IF prefix = "upper_"
    THEN p("upper_shaft_overhang") + p("middle_wheel_clearance")
         + p("middle_wheel_shaft_overhang")
    ELSE p("middle_wheel_clearance")

\* lines 167-170: the one branching rule
spacer_thickness(prefix) ==
    IF prefix = "upper_"
    THEN p("middle_wheel_clearance")
    ELSE p("upper_shaft_overhang") + p("middle_wheel_clearance")
         + p("middle_wheel_shaft_overhang")

spacer_thickness_names(prefix) ==
    IF prefix = "upper_"
    THEN {"middle_wheel_clearance"}
    ELSE {"upper_shaft_overhang", "middle_wheel_clearance", "middle_wheel_shaft_overhang"}

update_spacer(prefix, pivot_housing) ==
    IF ~Known({prefix \o "pivot_housing_num_bolts"} \cup spacer_thickness_names(prefix))
    THEN Raised("lookup", <<>>)
    ELSE
    LET literal ==
          << <<"outer_diameter", Get(pivot_housing, "housing_diameter"), "mm">>,
             <<"inner_diameter", Get(pivot_housing, "bearing_diameter"), "mm">>,
             Unset("spacer_thickness"),
             <<"bolt_diameter", Get(pivot_housing, "housing_bolt_diameter"), "mm">>,
             <<"bolt_placement_radius", Get(pivot_housing, "bolt_placement_radius"), "mm">>,
             <<"num_bolts", Num(p(prefix \o "pivot_housing_num_bolts")), "None">> >>
        spacer == Put(literal, "spacer_thickness", Num(spacer_thickness(prefix)), "mm")
    IN  Returned(<<>>, prefix \o "spacer.txt", spacer, Num(0))

----------------------------------------------------------------------------
(* SHAFTS.  Both handlers print the minimum bolt length (lines 191, 213)
   before get_shaft_map looks the shaft's own parameters up (lines 194, 216). *)

update_upper_shaft(upper_spacer_thickness) ==
    IF ~Known({"upper_shaft_frame_clearance", "swingarm_thickness", "linkage_thickness",
               "upper_shaft_overhang", "frame_width"})
    THEN Raised("lookup", <<>>)
    ELSE
    LET ret_ring_1_pos == p("upper_shaft_frame_clearance") + p("swingarm_thickness")
        ret_ring_2_pos == ret_ring_1_pos + 2 * p("linkage_thickness")
                          + upper_spacer_thickness.n
        ref_length == ret_ring_2_pos + p("upper_shaft_overhang")
        length == 2 * ref_length + p("frame_width")
        min_bolt_length == ret_ring_2_pos - p("upper_shaft_frame_clearance")
        printed == << <<"Min upper bolt length", <<min_bolt_length>> >> >>
    IN  IF ~Known(get_shaft_map_names("upper_"))
        THEN Raised("lookup", printed)
        ELSE Returned(printed, "upper_shaft.txt",
                 Put(Put(Put(Put(get_shaft_map("upper_"),
                     "ret_ring_1_pos", Num(ret_ring_1_pos), "mm"),
                     "ret_ring_2_pos", Num(ret_ring_2_pos), "mm"),
                     "ref_length", Num(ref_length), "mm"),
                     "length", Num(length), "mm"),
                 Num(0))

update_lower_shaft(upper_spacer_thickness, lower_spacer_thickness) ==
    IF ~Known({"lower_shaft_overhang", "linkage_thickness"})
    THEN Raised("lookup", <<>>)
    ELSE
    LET ret_ring_1_pos == p("lower_shaft_overhang")
        ret_ring_2_pos == ret_ring_1_pos + p("linkage_thickness")
        ret_ring_3_pos == ret_ring_2_pos + upper_spacer_thickness.n
        ret_ring_4_pos == ret_ring_3_pos + 2 * p("linkage_thickness")
                          + lower_spacer_thickness.n
        length == ret_ring_4_pos + p("lower_shaft_overhang")
        min_bolt_length == ret_ring_4_pos - ret_ring_3_pos
        printed == << <<"Min lower bolt length", <<min_bolt_length>> >> >>
    IN  IF ~Known(get_shaft_map_names("lower_"))
        THEN Raised("lookup", printed)
        ELSE Returned(printed, "lower_shaft.txt",
                 Put(Put(Put(Put(Put(get_shaft_map("lower_"),
                     "ret_ring_1_pos", Num(ret_ring_1_pos), "mm"),
                     "ret_ring_2_pos", Num(ret_ring_2_pos), "mm"),
                     "ret_ring_3_pos", Num(ret_ring_3_pos), "mm"),
                     "ret_ring_4_pos", Num(ret_ring_4_pos), "mm"),
                     "length", Num(length), "mm"),
                 Num(0))

----------------------------------------------------------------------------
(* STEERING MOUNTS *)

\* faulty variant: the prefix is left out of the file name
steering_mount_file_no_prefix(prefix) == "steering_mount.txt"

\* line 241: the artifact of a steering mount
steering_mount_file(prefix) == prefix \o "steering_mount.txt"

update_steering_mount(prefix, off, angle, pivot_housing) ==
    IF ~Known({prefix \o "steering_mount_neck_height", "linkage_mount_base_length",
               "linkage_width", "linkage_thickness"})
    THEN Raised("lookup", <<>>)
    ELSE
    LET literal ==
          << <<"neck_height", Num(p(prefix \o "steering_mount_neck_height")), "mm">>,
             <<"arm_length",
               Add(Add(Num(p("linkage_mount_base_length")),
                       Get(pivot_housing, "linkage_mount_tongue_length")), off), "mm">>,
             <<"angle", angle, "None">>,
             <<"width", Num(p("linkage_width")), "mm">>,
             <<"mount_thickness", Num(p("linkage_thickness")), "mm">> >>
        steering_mount ==
            Put(literal, "fillet_radius",
                Num(STEERING_MOUNT_FILLET_RADIUS_FACTOR(Get(literal, "neck_height").n)),
                "mm")
        key_list == <<"linkage_mount_tongue_length", "linkage_mount_shoulder_depth",
                      "linkage_mount_bolt_diameter", "linkage_mount_bolt_spacing">>
    IN  Returned(<<>>, steering_mount_file(prefix),
                 append_map(key_list, AsDict(pivot_housing), steering_mount), Num(0))

\* faulty variant: a projected parameter name that is not the table's
update_middle_wheel_mount_typo(pivot_housing) ==
    LET params_key_list ==
            <<"middle_wheel_shaft_diameter", "middle_wheel_shaft_length",
              "middle_wheel_shaft_overhang", "wheel_diametre", "wheel_thickness",
              "linkage_thickness", "linkage_width">>
        pivot_key_list ==
            <<"linkage_mount_base_length", "linkage_mount_tongue_length",
              "linkage_mount_shoulder_depth", "linkage_mount_bolt_diameter",
              "linkage_mount_bolt_spacing">>
    IN  Returned(<<>>, "middle_wheel_mount.txt",
                 append_map(pivot_key_list, AsDict(pivot_housing),
                            append_map(params_key_list, TableDict, <<>>)),
                 Num(0))

update_middle_wheel_mount(pivot_housing) ==
    LET params_key_list ==
            <<"middle_wheel_shaft_diameter", "middle_wheel_shaft_length",
              "middle_wheel_shaft_overhang", "wheel_diameter", "wheel_thickness",
              "linkage_thickness", "linkage_width">>
        pivot_key_list ==
            <<"linkage_mount_base_length", "linkage_mount_tongue_length",
              "linkage_mount_shoulder_depth", "linkage_mount_bolt_diameter",
              "linkage_mount_bolt_spacing">>
    IN  Returned(<<>>, "middle_wheel_mount.txt",
                 append_map(pivot_key_list, AsDict(pivot_housing),
                            append_map(params_key_list, TableDict, <<>>)),
                 Num(0))

----------------------------------------------------------------------------
(* MAIN: lines 255-282, one statement after the other *)

\* faulty variant: the first linkage is derived before the width is validated
MainSeq_validate_late ==
    <<"front_rocker_linkage", "validate", "rear_rocker_linkage",
      "middle_bogie_linkage", "rear_bogie_linkage",
      "upper_pivot_housing", "lower_pivot_housing",
      "upper_spacer", "lower_spacer",
      "upper_shaft", "lower_shaft",
      "front_steering_mount", "rear_steering_mount", "middle_wheel_mount">>

MainSeq ==
    <<"validate",
      "front_rocker_linkage", "rear_rocker_linkage",
      "middle_bogie_linkage", "rear_bogie_linkage",
      "upper_pivot_housing", "lower_pivot_housing",
      "upper_spacer", "lower_spacer",
      "upper_shaft", "lower_shaft",
      "front_steering_mount", "rear_steering_mount", "middle_wheel_mount">>

\* the results main binds to a local (the shafts' and mounts' are dropped)
Locals == {"front_rocker_linkage", "rear_rocker_linkage", "middle_bogie_linkage",
           "rear_bogie_linkage", "upper_pivot_housing", "lower_pivot_housing",
           "upper_spacer", "lower_spacer"}

\* main is about to execute statement s
At(s) == status = "running" /\ pc \in 1..Len(MainSeq) /\ MainSeq[pc] = s

\* the exception leaves main: nothing is caught, nothing is undone
Abort(why) ==
    /\ status' = "aborted"
    /\ cause' = why
    /\ UNCHANGED <<params_with_units, pc, valid, rec, offset, files>>

\* the statement returned: main goes on to the next one, or returns
Advance ==
    /\ pc' = pc + 1
    /\ status' = IF pc = Len(MainSeq) THEN "done" ELSE "running"
    /\ UNCHANGED <<params_with_units, cause>>

\* FileHandler.map_to_text_file(record, name): writes the artifact, or raises
\* and writes nothing when the sink fails (sink_ok = FALSE)
map_to_text_file(record, name, sink_ok) ==
    IF sink_ok THEN Append(files, <<name, record>>) ELSE files

\* The statement `x = update_...(...)` of main for component s, whose handler
\* does `o` on this table
Call(s, o, sink_ok) ==
    /\ At(s)
    /\ trace' = Append(trace, s)
    /\ console' = console \o o.printed
    /\ IF o.fail # "none" THEN Abort(o.fail)
       ELSE IF ~sink_ok THEN Abort("persist")
       ELSE /\ files' = map_to_text_file(o.record, o.name, sink_ok)
            /\ rec' = IF s \in Locals THEN [rec EXCEPT ![s] = o.record] ELSE rec
            /\ offset' = IF s = "front_rocker_linkage" THEN o.off ELSE offset
            /\ UNCHANGED valid
            /\ Advance

\* line 257: print(f"Rover width is valid: {validate_rover_width()}\n")
Main_validate ==
    /\ At("validate")
    /\ trace' = Append(trace, "validate")
    /\ IF ~Known(validate_rover_width_names)
       THEN /\ Abort("lookup")
            /\ UNCHANGED console
       ELSE /\ valid' = <<TRUE, validate_rover_width[1], validate_rover_width[2]>>
            /\ console' = Append(console, <<"Rover width is valid", validate_rover_width>>)
            /\ UNCHANGED <<rec, offset, files>>
            /\ Advance

Main_front_rocker_linkage ==
    \E sink_ok \in BOOLEAN : Call("front_rocker_linkage", update_front_rocker_linkage, sink_ok)

Main_rear_rocker_linkage ==
    \E sink_ok \in BOOLEAN : Call("rear_rocker_linkage", update_rear_rocker_linkage, sink_ok)

Main_middle_bogie_linkage ==
    \E sink_ok \in BOOLEAN : Call("middle_bogie_linkage", update_middle_bogie_linkage, sink_ok)

Main_rear_bogie_linkage ==
    \E sink_ok \in BOOLEAN : Call("rear_bogie_linkage", update_rear_bogie_linkage, sink_ok)

Main_upper_pivot_housing ==
    \E sink_ok \in BOOLEAN :
        Call("upper_pivot_housing",
             update_pivot_housing("upper_", Get(rec["front_rocker_linkage"], "angle"),
                                  Get(rec["rear_rocker_linkage"], "angle")), sink_ok)

Main_lower_pivot_housing ==
    \E sink_ok \in BOOLEAN :
        Call("lower_pivot_housing",
             update_pivot_housing("lower_", Get(rec["middle_bogie_linkage"], "angle"),
                                  Get(rec["rear_bogie_linkage"], "angle")), sink_ok)

Main_upper_spacer ==
    \E sink_ok \in BOOLEAN :
        Call("upper_spacer", update_spacer("upper_", rec["upper_pivot_housing"]), sink_ok)

Main_lower_spacer ==
    \E sink_ok \in BOOLEAN :
        Call("lower_spacer", update_spacer("lower_", rec["lower_pivot_housing"]), sink_ok)

Main_upper_shaft ==
    \E sink_ok \in BOOLEAN :
        Call("upper_shaft",
             update_upper_shaft(Get(rec["upper_spacer"], "spacer_thickness")), sink_ok)

Main_lower_shaft ==
    \E sink_ok \in BOOLEAN :
        Call("lower_shaft",
             update_lower_shaft(Get(rec["upper_spacer"], "spacer_thickness"),
                                Get(rec["lower_spacer"], "spacer_thickness")), sink_ok)

Main_front_steering_mount ==
    \E sink_ok \in BOOLEAN :
        Call("front_steering_mount",
             update_steering_mount("front_", offset,
                                   Get(rec["front_rocker_linkage"], "angle"),
                                   rec["upper_pivot_housing"]), sink_ok)

Main_rear_steering_mount ==
    \E sink_ok \in BOOLEAN :
        Call("rear_steering_mount",
             update_steering_mount("rear_", Num(0), Num(0), rec["lower_pivot_housing"]),
             sink_ok)

Main_middle_wheel_mount ==
    \E sink_ok \in BOOLEAN :
        Call("middle_wheel_mount", update_middle_wheel_mount(rec["lower_pivot_housing"]),
             sink_ok)

----------------------------------------------------------------------------
(* The explored tables: every combination of the varied values, complete
   or with any one row missing. *)

Tables ==
    {Drop(Vary(slack, clr, dia, low, short), missing) :
        slack \in 0..MaxSlack, clr \in 0..MaxClearance, dia \in 0..MaxShaftDiameter,
        low \in BOOLEAN, short \in BOOLEAN,
        missing \in {{}} \cup {{name} : name \in Names}}

Init ==
    /\ params_with_units \in Tables
    /\ pc = 1
    /\ status = "running"
    /\ cause = "none"
    /\ trace = <<>>
    /\ valid = <<FALSE, FALSE, 0>>
    /\ rec = [c \in Locals |-> <<>>]
    /\ offset = Num(0)
    /\ files = <<>>
    /\ console = <<>>

Next ==
    \/ Main_validate
    \/ Main_front_rocker_linkage
    \/ Main_rear_rocker_linkage
    \/ Main_middle_bogie_linkage
    \/ Main_rear_bogie_linkage
    \/ Main_upper_pivot_housing
    \/ Main_lower_pivot_housing
    \/ Main_upper_spacer
    \/ Main_lower_spacer
    \/ Main_upper_shaft
    \/ Main_lower_shaft
    \/ Main_front_steering_mount
    \/ Main_rear_steering_mount
    \/ Main_middle_wheel_mount

Spec == Init /\ [][Next]_vars

----------------------------------------------------------------------------
(* Properties *)

FileNames == [i \in 1..Len(files) |-> files[i][1]]

Written(name) == \E i \in 1..Len(files) : files[i][1] = name

File(name) == files[CHOOSE i \in 1..Len(files) : files[i][1] = name][2]

\* the statement that raised, in an aborted run
Failing == trace[Len(trace)]

\* the order of the orchestration as the specification states it
StatedOrder ==
    <<"validate",
      "front_rocker_linkage", "rear_rocker_linkage",
      "middle_bogie_linkage", "rear_bogie_linkage",
      "upper_pivot_housing", "lower_pivot_housing",
      "upper_spacer", "lower_spacer",
      "upper_shaft", "lower_shaft",
      "front_steering_mount", "rear_steering_mount", "middle_wheel_mount">>

\* the artifacts of the components, in that order
StatedArtifacts == [i \in 1..(Len(StatedOrder) - 1) |-> StatedOrder[i + 1] \o ".txt"]

\* the records a component consumes
Consumes(s) ==
    CASE s = "upper_pivot_housing" -> {"front_rocker_linkage", "rear_rocker_linkage"}
      [] s = "lower_pivot_housing" -> {"middle_bogie_linkage", "rear_bogie_linkage"}
      [] s = "upper_spacer" -> {"upper_pivot_housing"}
      [] s = "lower_spacer" -> {"lower_pivot_housing"}
      [] s = "upper_shaft" -> {"upper_spacer"}
      [] s = "lower_shaft" -> {"upper_spacer", "lower_spacer"}
      [] s = "front_steering_mount" -> {"upper_pivot_housing", "front_rocker_linkage"}
      [] s = "rear_steering_mount" -> {"lower_pivot_housing"}
      [] s = "middle_wheel_mount" -> {"lower_pivot_housing"}
      [] OTHER -> {}

\* the console lines a statement of main can print
ConsoleTags(s) ==
    CASE s = "validate" -> {"Rover width is valid"}
      [] s = "upper_shaft" -> {"Min upper bolt length"}
      [] s = "lower_shaft" -> {"Min lower bolt length"}
      [] OTHER -> {}

(* C1: the statements of main are entered once each, in the stated order
   (validate, four linkages, two housings, two spacers, two shafts, three
   mounts); nothing is computed or written before validation has been
   evaluated; a component is entered only when every record it consumes has
   been computed, earlier in the same run. *)
C1_Order ==
    /\ Len(trace) <= Len(StatedOrder)
    /\ trace = SubSeq(StatedOrder, 1, Len(trace))
    /\ status = "done" => trace = StatedOrder
    /\ (files # <<>> \/ \E c \in Locals : rec[c] # <<>>) => valid[1] /\ trace[1] = "validate"
    /\ \A i \in 1..Len(trace) : \A d \in Consumes(trace[i]) :
           /\ \E j \in 1..(i - 1) : trace[j] = d
           /\ rec[d] # <<>>

C1_Witness == status = "done" /\ Len(trace) = 14 /\ Len(files) = 13

(* C2: when a lookup fails in a component, nothing of that component has been
   produced: no artifact of it is written and no console line of it has been
   printed. *)
C2_NoOutputBeforeLookupFailure ==
    (status = "aborted" /\ cause = "lookup") =>
        /\ ~Written(Failing \o ".txt")
        /\ \A i \in 1..Len(console) : console[i][1] \notin ConsoleTags(Failing)

\* the part of C2 the code does keep: no artifact of the failing component
C2_NoArtifactBeforeLookupFailure ==
    (status = "aborted" /\ cause = "lookup") => ~Written(Failing \o ".txt")

(* C5 as stated: a completed run has written every computed record once,
   under its own name: twelve artifacts. *)
C5_TwelveArtifacts ==
    status = "done" =>
        /\ Len(files) = 12
        /\ \A i, j \in 1..Len(files) : files[i][1] = files[j][1] => i = j

(* C5, amended: a completed run has written every computed record exactly
   once, each under its own fixed name, in the order of the orchestration:
   four linkages, two housings, two spacers, two shafts, three mounts, which
   are thirteen artifacts. *)
C5_ThirteenArtifacts ==
    status = "done" =>
        /\ FileNames = StatedArtifacts
        /\ Len(files) = 13
        /\ \A c \in Locals : File(c \o ".txt") = rec[c]

C5_Witness == status = "done" /\ Written("middle_wheel_mount.txt") /\ Len(files) = 13

(* C3 as stated: with every referenced name in the table (and a sink that
   takes every write) a run derives and persists every component record,
   whether the width validation passed or failed. *)
C3_DerivesEveryRecord ==
    (status # "running" /\ Known(Names) /\ cause # "persist") =>
        /\ status = "done"
        /\ FileNames = StatedArtifacts

\* the part of C3 the code does keep: a failed validation ends no run; a run
\* that aborts after it aborts in a later statement, on another failure
ValidationFailureIsNotFatal ==
    (valid[1] /\ ~valid[2]) =>
        /\ status = "aborted" => Len(trace) >= 2 /\ cause \in {"lookup", "arith", "persist"}
        /\ status = "done" => FileNames = StatedArtifacts

(* C4 as stated: a run completes the whole sequence or aborts at the first
   lookup or persistence failure; the artifacts of an aborted run are exactly
   those of the components before the failing one, in order. *)
C4_CompleteOrAbortOnLookup ==
    /\ status = "aborted" => cause \in {"lookup", "persist"}
    /\ status = "aborted" => FileNames = SubSeq(StatedArtifacts, 1, Len(trace) - 2)
    /\ status = "done" => FileNames = StatedArtifacts

\* the part of C4 the code does keep, whatever raised: the artifacts of an
\* aborted run are a prefix, those of the components before the failing one
PrefixOnAbort ==
    /\ status = "aborted" => FileNames = SubSeq(StatedArtifacts, 1, Len(trace) - 2)
    /\ status = "done" => FileNames = StatedArtifacts
    /\ status = "running" => FileNames = SubSeq(StatedArtifacts, 1, Len(trace) - 1)

(* C6: validate_rover_width returns required_clearance = upper_shaft_frame_clearance
   + swingarm_thickness + 2 linkage_thickness + 2 middle_wheel_clearance
   + upper_shaft_overhang + middle_wheel_shaft_length + wheel_thickness, and
   passed iff required_clearance <= (rover_width - frame_width) / 2, equality
   passing; evaluating it writes no artifact and binds no record. *)
C6_ValidateRoverWidth ==
    /\ valid[1] =>
         /\ valid[3] = Unit * (params["upper_shaft_frame_clearance"]
                               + params["swingarm_thickness"]
                               + 2 * params["linkage_thickness"]
                               + 2 * params["middle_wheel_clearance"]
                               + params["upper_shaft_overhang"]
                               + params["middle_wheel_shaft_length"]
                               + params["wheel_thickness"])
         /\ valid[2] <=> (2 * valid[3] <= Unit * (params["rover_width"] - params["frame_width"]))
    /\ trace = <<"validate">> =>
         /\ files = <<>>
         /\ \A c \in Locals : rec[c] = <<>>
         /\ offset = Num(0)

\* validation evaluated, on the boundary: required_clearance equals the target
C6_Witness ==
    /\ valid[1] /\ valid[2]
    /\ 2 * valid[3] = Unit * (params["rover_width"] - params["frame_width"])

\* the lower pivot housing radius, from the housing-diameter invariant
LowerHousingRadius ==
    (Unit * (params["lower_bearing_diameter"]
             + 2 * (params["pivot_housing_bolt_diameter"]
                    + 2 * params["pivot_housing_min_wall_thickness"]))) \div 2

\* the length of the middle bogie linkage is the hypotenuse of the height and
\* width its angle is taken of, less `fittings`
MiddleBogieLengthIs(fittings) ==
    LET L == Get(File("middle_bogie_linkage.txt"), "length")
        A == Get(File("middle_bogie_linkage.txt"), "angle")
    IN  /\ Len(A.t) = 1 /\ A.t[1][2] = "atan2"
        /\ L.t = << <<1, "hypot", A.t[1][3], A.t[1][4], 0>> >>
        /\ L.n = 0 - fittings

(* C7 as stated: the middle bogie linkage's length is its extended length
   less the lower pivot housing radius and twice linkage_mount_base_length,
   and nothing else. *)
C7_MiddleBogieLength ==
    Written("middle_bogie_linkage.txt") =>
        MiddleBogieLengthIs(LowerHousingRadius + 2 * Unit * params["linkage_mount_base_length"])

(* C7, amended: the middle bogie linkage's length is its extended length less
   the lower pivot housing radius, half middle_wheel_shaft_diameter and twice
   linkage_mount_base_length. *)
C7_MiddleBogieLengthWithShaft ==
    Written("middle_bogie_linkage.txt") =>
        MiddleBogieLengthIs(LowerHousingRadius
                            + (Unit * params["middle_wheel_shaft_diameter"]) \div 2
                            + 2 * Unit * params["linkage_mount_base_length"])

C7_Witness ==
    /\ Written("middle_bogie_linkage.txt")
    /\ params["middle_wheel_shaft_diameter"] > 0

\* upper_shaft_overhang + middle_wheel_clearance + middle_wheel_shaft_overhang
ThreeTermSum ==
    Unit * (params["upper_shaft_overhang"] + params["middle_wheel_clearance"]
            + params["middle_wheel_shaft_overhang"])

(* C8: the spacer thickness is middle_wheel_clearance alone for prefix
   "upper_" and the three-term sum for any other prefix; in a run the upper
   shaft is built from the upper spacer's thickness and the lower shaft from
   both the upper and the lower spacer's. *)
C8_SpacerThickness ==
    /\ Written("upper_spacer.txt") =>
         Get(File("upper_spacer.txt"), "spacer_thickness")
             = Num(Unit * params["middle_wheel_clearance"])
    /\ Written("lower_spacer.txt") =>
         /\ Get(File("lower_spacer.txt"), "spacer_thickness") = Num(ThreeTermSum)
         /\ \A prefix \in {"lower_", "middle_", ""} : spacer_thickness(prefix) = ThreeTermSum
    /\ Written("upper_shaft.txt") =>
         LET S == File("upper_shaft.txt")
         IN  Get(S, "ret_ring_2_pos").n
                 = Get(S, "ret_ring_1_pos").n + 2 * Unit * params["linkage_thickness"]
                   + Unit * params["middle_wheel_clearance"]
    /\ Written("lower_shaft.txt") =>
         LET S == File("lower_shaft.txt")
         IN  /\ Get(S, "ret_ring_3_pos").n
                    = Get(S, "ret_ring_2_pos").n + Unit * params["middle_wheel_clearance"]
             /\ Get(S, "ret_ring_4_pos").n
                    = Get(S, "ret_ring_3_pos").n + 2 * Unit * params["linkage_thickness"]
                      + ThreeTermSum

C8_Witness ==
    /\ Written("upper_shaft.txt") /\ Written("lower_shaft.txt")
    /\ Get(File("upper_spacer.txt"), "spacer_thickness")
           # Get(File("lower_spacer.txt"), "spacer_thickness")

\* middle_wheel_clearance + middle_wheel_shaft_length + wheel_thickness
OutboardOfShaft ==
    Unit * (params["middle_wheel_clearance"] + params["middle_wheel_shaft_length"]
            + params["wheel_thickness"])

(* C9: on a table of non-negative values, when the validation passed, the
   upper shaft written later in the run has length <= rover_width; exactly,
   length = 2 ref_length + frame_width <= rover_width - 2 (middle_wheel_clearance
   + middle_wheel_shaft_length + wheel_thickness), because required_clearance
   = ref_length + middle_wheel_clearance + middle_wheel_shaft_length
   + wheel_thickness. *)
C9_UpperShaftWithinRoverWidth ==
    Written("upper_shaft.txt") =>
        LET S == File("upper_shaft.txt")
            length == Get(S, "length").n
            ref_length == Get(S, "ref_length").n
        IN  /\ length = 2 * ref_length + Unit * params["frame_width"]
            /\ valid[3] = ref_length + OutboardOfShaft
            /\ valid[2] => length <= Unit * params["rover_width"] - 2 * OutboardOfShaft
            /\ (valid[2] /\ \A name \in DOMAIN params : params[name] >= 0) =>
                   length <= Unit * params["rover_width"]

\* the validation passed on the boundary and the upper shaft is written
C9_Witness ==
    /\ Written("upper_shaft.txt") /\ valid[2]
    /\ Get(File("upper_shaft.txt"), "length").n
           = Unit * params["rover_width"] - 2 * OutboardOfShaft

\* the fields of a steering mount and of the middle wheel mount, as listed
SteeringMountFields ==
    <<"neck_height", "arm_length", "angle", "width", "mount_thickness", "fillet_radius",
      "linkage_mount_tongue_length", "linkage_mount_shoulder_depth",
      "linkage_mount_bolt_diameter", "linkage_mount_bolt_spacing">>

MiddleWheelMountFields ==
    <<"middle_wheel_shaft_diameter", "middle_wheel_shaft_length",
      "middle_wheel_shaft_overhang", "wheel_diameter", "wheel_thickness",
      "linkage_thickness", "linkage_width",
      "linkage_mount_base_length", "linkage_mount_tongue_length",
      "linkage_mount_shoulder_depth", "linkage_mount_bolt_diameter",
      "linkage_mount_bolt_spacing">>

(* C10: in a run that reaches the mounts, append_map never skips a key: the
   seven parameter names projected into the middle wheel mount are in the
   table (an earlier statement looked each of them up), the projected housing
   fields are in both housings, and so the middle wheel mount has exactly its
   12 fields and each steering mount exactly its 10, in the listed order. *)
C10_MountFields ==
    /\ (Len(trace) >= 12 /\ trace[12] = "front_steering_mount") =>
         /\ \A i \in 1..7 : MiddleWheelMountFields[i] \in DOMAIN params_with_units
         /\ \A i \in 8..12 : /\ HasKey(rec["lower_pivot_housing"], MiddleWheelMountFields[i])
                             /\ HasKey(rec["upper_pivot_housing"], MiddleWheelMountFields[i])
    /\ Written("front_steering_mount.txt") =>
         Keys(File("front_steering_mount.txt")) = SteeringMountFields
    /\ Written("rear_steering_mount.txt") =>
         Keys(File("rear_steering_mount.txt")) = SteeringMountFields
    /\ Written("middle_wheel_mount.txt") =>
         Keys(File("middle_wheel_mount.txt")) = MiddleWheelMountFields

C10_Witness ==
    /\ status = "done"
    /\ Len(File("middle_wheel_mount.txt")) = 12
    /\ Len(File("front_steering_mount.txt")) = 10
    /\ Len(File("rear_steering_mount.txt")) = 10

====
